---------------------------- MODULE Spec2Model ----------------------------
(***************************************************************************)
(* A model of imaging_google.py: a Streamlit script that ingests an        *)
(* uploaded image (raster or DICOM), resizes it for display, sends it to a *)
(* hosted model through a fixed temporary file, renders the answer, keeps  *)
(* it in st.session_state and exports it as a .docx document.              *)
(*                                                                         *)
(* Four specifications share the module:                                   *)
(*   Spec        the script runs of two browser sessions (one thread per   *)
(*               session, interleaved at the handler's blocking steps);    *)
(*   SpecNorm    the DICOM pixel normalisation, on bounded pixel arrays;   *)
(*   SpecResize  the display resize, on bounded image sizes;               *)
(*   SpecDocx    create_docx, on bounded markdown texts.                   *)
(* Text is a sequence of one-character strings; Python offsets (0-based,   *)
(* end-exclusive) are kept.                                                *)
(***************************************************************************)
EXTENDS Integers, Sequences, FiniteSets

VARIABLES
    GOOGLE_API_KEY,   \* os.getenv("GOOGLE_API_KEY"): "key" or None
    uploaded_file,    \* per session: the uploader widget's file, or None
    pc,               \* per session: position of the script thread
    trace,            \* per session: what the current script run has done, in order
    resized_image,    \* per session: the run's local resized_image
    response,         \* per session: the run's local response.content
    session_state,    \* per session: st.session_state
    sent,             \* per session: the image the hosted model received in this run
    temp_file,        \* contents of temp_resized_image.png (one file per process)
    pixel_array,      \* SpecNorm: ds.pixel_array
    normalized,       \* SpecNorm: outcome of the normalisation
    size,             \* SpecResize: image.size
    resize_out,       \* SpecResize: outcome of the resize
    analysis_markdown,\* SpecDocx: the text given to create_docx
    doc               \* SpecDocx: the document's elements, in order

vars == <<GOOGLE_API_KEY, uploaded_file, pc, trace, resized_image, response,
          session_state, sent, temp_file, pixel_array, normalized, size,
          resize_out, analysis_markdown, doc>>

mainVars == <<GOOGLE_API_KEY, uploaded_file, pc, trace, resized_image, response,
              session_state, sent, temp_file>>
normVars == <<pixel_array, normalized>>
resizeVars == <<size, resize_out>>
docxVars == <<analysis_markdown, doc>>

\* Python's None, for the values that are records otherwise
None == [none |-> TRUE]

(***************************************************************************)
(* Bounds of the model.                                                    *)
(***************************************************************************)
MaxPixels == 3      \* pixels in a DICOM array
MaxPixelAbs == 5    \* pixel values range over -MaxPixelAbs..MaxPixelAbs
MaxWidth == 520     \* image widths 1..MaxWidth
MaxHeight == 100    \* image heights 1..MaxHeight
MaxTokens == 4      \* pieces in an analysis text

(***************************************************************************)
(* Text helpers (Python str methods).                                      *)
(***************************************************************************)
\* s[a:b]
Slice(s, a, b) == SubSeq(s, a + 1, b)

\* s.startswith(p)
StartsWith(s, p) == Len(s) >= Len(p) /\ SubSeq(s, 1, Len(p)) = p

\* s.endswith(p)
EndsWith(s, p) == Len(s) >= Len(p) /\ SubSeq(s, Len(s) - Len(p) + 1, Len(s)) = p

\* s[at:at+len(p)] == p
MatchAt(s, at, p) == at + Len(p) <= Len(s) /\ Slice(s, at, at + Len(p)) = p

IsSpace(c) == c \in {" ", "\t"}

RECURSIVE LStrip(_)
LStrip(s) == IF s # <<>> /\ IsSpace(Head(s)) THEN LStrip(Tail(s)) ELSE s

RECURSIVE RStrip(_)
RStrip(s) ==
    IF s # <<>> /\ IsSpace(s[Len(s)]) THEN RStrip(SubSeq(s, 1, Len(s) - 1)) ELSE s

\* s.strip()
Strip(s) == RStrip(LStrip(s))

\* s.replace(c, '') for a one-character c
RemoveChar(s, c) == SelectSeq(s, LAMBDA x : x # c)

\* s.split(c) for a one-character c: always at least one piece
RECURSIVE SplitFrom(_, _, _)
SplitFrom(s, c, cur) ==
    IF s = <<>> THEN <<cur>>
    ELSE IF Head(s) = c THEN <<cur>> \o SplitFrom(Tail(s), c, <<>>)
    ELSE SplitFrom(Tail(s), c, Append(cur, Head(s)))

Split(s, c) == SplitFrom(s, c, <<>>)

LowerChar(c) ==
    CASE c = "A" -> "a" [] c = "C" -> "c" [] c = "D" -> "d" [] c = "G" -> "g"
      [] c = "I" -> "i" [] c = "M" -> "m" [] c = "N" -> "n" [] c = "O" -> "o"
      [] c = "P" -> "p" [] OTHER -> c

\* s.lower()
Lower(s) == [i \in 1..Len(s) |-> LowerChar(s[i])]

RECURSIVE Concat(_)
Concat(ss) == IF ss = <<>> THEN <<>> ELSE Head(ss) \o Concat(Tail(ss))

SeqMin(s) == CHOOSE m \in {s[i] : i \in 1..Len(s)} : \A j \in 1..Len(s) : m <= s[j]
SeqMax(s) == CHOOSE m \in {s[i] : i \in 1..Len(s)} : \A j \in 1..Len(s) : m >= s[j]

RECURSIVE GCD(_, _)
GCD(a, b) == IF b = 0 THEN a ELSE GCD(b, a % b)

RECURSIVE IsPow2(_)
IsPow2(n) == n = 1 \/ (n > 1 /\ n % 2 = 0 /\ IsPow2(n \div 2))

(***************************************************************************)
(* DICOM normalisation (lines 108-113).  A float is kept as an exact       *)
(* fraction [num, den]; for the arrays within the bounds the IEEE-754      *)
(* double results truncate to the same integers as the exact fractions.    *)
(***************************************************************************)
Frac(n, d) == [num |-> n, den |-> d]

\* ds.pixel_array.astype(float)
AsFloat(px) == [i \in 1..Len(px) |-> Frac(px[i], 1)]

FracSeqMin(fs) == CHOOSE m \in {fs[i] : i \in 1..Len(fs)} :
                     \A j \in 1..Len(fs) : m.num * fs[j].den <= fs[j].num * m.den
FracSeqMax(fs) == CHOOSE m \in {fs[i] : i \in 1..Len(fs)} :
                     \A j \in 1..Len(fs) : m.num * fs[j].den >= fs[j].num * m.den

ShiftNone(fs) == fs

\* pixel_array -= pixel_array.min()
ShiftToZero(fs) ==
    LET m == FracSeqMin(fs)
    IN  [i \in 1..Len(fs) |-> Frac(fs[i].num * m.den - m.num * fs[i].den, fs[i].den * m.den)]

\* if pixel_array.max() > 0: pixel_array /= pixel_array.max()
ScaleToUnit(fs) ==
    LET m == FracSeqMax(fs)
    IN  IF m.num > 0
        THEN [i \in 1..Len(fs) |-> Frac(fs[i].num * m.den, fs[i].den * m.num)]
        ELSE fs

\* float -> uint8: truncation toward zero, then the low eight bits
Uint8(f) ==
    LET t == IF f.num >= 0 THEN f.num \div f.den ELSE -((-f.num) \div f.den)
    IN  t % 256

To8BitWide(fs) == [i \in 1..Len(fs) |-> Uint8(Frac(fs[i].num * 256, fs[i].den))]

\* (pixel_array * 255).astype("uint8")
To8Bit(fs) == [i \in 1..Len(fs) |-> Uint8(Frac(fs[i].num * 255, fs[i].den))]

NormalizePixels(px) == To8Bit(ScaleToUnit(ShiftToZero(AsFloat(px))))

PixelValues == (0 - MaxPixelAbs)..MaxPixelAbs

PixelArrays == UNION {[1..n -> PixelValues] : n \in 1..MaxPixels}


(***************************************************************************)
(* Display resize (lines 123-127).                                         *)
(***************************************************************************)
new_width == 500

Raster(w, h) == [w |-> w, h |-> h]

RECURSIVE Pow2(_)
Pow2(n) == IF n = 0 THEN 1 ELSE 2 * Pow2(n - 1)

\* 2^e mod m
RECURSIVE Pow2Mod(_, _)
Pow2Mod(e, m) == IF e = 0 THEN 1 % m ELSE (2 * Pow2Mod(e - 1, m)) % m

\* the largest e with 2^e <= n
RECURSIVE ILog2(_)
ILog2(n) == IF n < 2 THEN 0 ELSE 1 + ILog2(n \div 2)

\* the binary exponent k of the double width / height: 2^k <= w/h < 2^(k+1)
RECURSIVE ExponentFrom(_, _, _)
ExponentFrom(w, h, k) ==
    IF w >= h THEN (IF w >= h * Pow2(k + 1) THEN ExponentFrom(w, h, k + 1) ELSE k)
    ELSE (IF w * Pow2(0 - k) < h THEN ExponentFrom(w, h, k - 1) ELSE k)

Exponent(w, h) == ExponentFrom(w, h, 0)

\* int(new_width / (width / height)) in IEEE-754 doubles (round to nearest).
\* A quotient 500*h/w that is no integer truncates to its floor whatever the
\* rounding.  When it is an integer N and width / height is exact (its reduced
\* denominator is a power of two) the result is N.  Otherwise width / height is
\* rounded: r is the remainder of the division that yields its 53-bit
\* mantissa, so it is rounded up by (h - r)/h of an ulp when 2r > h.  Rounded
\* down, the second quotient is above N and int() gives N; rounded up, the
\* second quotient is below N and rounds to the double under N, which int()
\* takes to N - 1, exactly when the relative error exceeds half the spacing of
\* the doubles under N (100 x 151 gives 754, not 755).
NewHeight(w, h) ==
    LET n == new_width * h
        q == n \div w
        k == Exponent(w, h)
        r == ((w % h) * Pow2Mod(52 - k, h)) % h
        e == ILog2(q)
        F == IF q = Pow2(e) THEN 4 ELSE 2
        lhs == F * (h - r) * q * (IF k >= 0 THEN Pow2(k) ELSE 1)
        rhs == w * Pow2(e) * (IF k >= 0 THEN 1 ELSE Pow2(0 - k))
    IN  IF n % w # 0 \/ IsPow2(h \div GCD(w, h)) THEN q
        ELSE IF 2 * r < h THEN q
        ELSE IF lhs > rhs THEN q - 1 ELSE q

\* PIL Image.resize: "height and width must be > 0", else a raster of the size asked
Resize(image, nw, nh) ==
    IF nw < 1 \/ nh < 1 THEN [error |-> "ValueError"] ELSE Raster(nw, nh)

Sizes == {Raster(w, h) : w \in 1..MaxWidth, h \in 1..MaxHeight}

(***************************************************************************)
(* Markdown to document (create_docx, lines 163-193).                      *)
(***************************************************************************)
Heading(text, level) == [kind |-> "heading", text |-> text, level |-> level]
PageBreak == [kind |-> "page_break"]
Picture(image) == [kind |-> "picture", image |-> image]
Paragraph(runs) == [kind |-> "paragraph", runs |-> runs]
Run(text, bold) == [text |-> text, bold |-> bold]

Stars == <<"*", "*">>
Unders == <<"_", "_">>
Rule == <<"-", "-", "-">>

\* the delimiter (\*\*|__) at offset i, or the empty text
DelimAt(line, i) ==
    IF MatchAt(line, i, Stars) THEN Stars
    ELSE IF MatchAt(line, i, Unders) THEN Unders ELSE <<>>

\* offsets k at which \1 closes a match opened at i: (.+?) takes one character at least
Closings(line, i) ==
    {k \in (i + 3)..(Len(line) - 2) : MatchAt(line, k, DelimAt(line, i))}

\* (.+?) is lazy: the first closing delimiter ends the match
Closing(line, i) == CHOOSE k \in Closings(line, i) : \A j \in Closings(line, i) : k <= j

\* bold_pattern.search(line, pos): the leftmost match at or after pos
MatchStarts(line, pos) ==
    {i \in pos..(Len(line) - 1) : DelimAt(line, i) # <<>> /\ Closings(line, i) # {}}

WholeMatch(line, i) == Slice(line, i, Closing(line, i) + 2)

\* m.group(2)
Group2(line, i) == Slice(line, i + 2, Closing(line, i))

\* the runs of the loop over bold_pattern.finditer(line), from last_idx on
RECURSIVE Runs(_, _)
Runs(line, last_idx) ==
    IF MatchStarts(line, last_idx) = {}
    THEN IF last_idx < Len(line) THEN <<Run(Slice(line, last_idx, Len(line)), FALSE)>> ELSE <<>>
    ELSE LET i == CHOOSE a \in MatchStarts(line, last_idx) :
                      \A b \in MatchStarts(line, last_idx) : a <= b
         IN  (IF i > last_idx THEN <<Run(Slice(line, last_idx, i), FALSE)>> ELSE <<>>)
             \o <<Run(Group2(line, i), TRUE)>>
             \o Runs(line, Closing(line, i) + 2)

\* line.replace('#', '').strip()
HeadingText(line) == Strip(RemoveChar(line, "#"))

\* one pass of "for line in analysis_markdown.split('\n')": the elements added
LineElements(line) ==
    IF StartsWith(line, <<"#">>) THEN <<Heading(HeadingText(line), 1)>>
    ELSE IF Strip(line) = Rule THEN <<PageBreak>>
    ELSE IF Strip(line) # <<>> THEN <<Paragraph(Runs(line, 0))>>
    ELSE <<>>

TitleText == <<"M","e","d","i","c","a","l"," ","I","m","a","g","i","n","g"," ",
               "A","n","a","l","y","s","i","s">>
ImageHeadingText == <<"U","p","l","o","a","d","e","d"," ","I","m","a","g","e">>

create_docx(markdown, image_pil) ==
    LET lines == Split(markdown, "\n")
    IN  <<Heading(TitleText, 0), Heading(ImageHeadingText, 1), Picture(image_pil)>>
        \o Concat([k \in 1..Len(lines) |-> LineElements(lines[k])])

\* the texts a model answer is drawn from: up to MaxTokens of these pieces
BoldWord == <<"*", "*", "b", "*", "*">>
Tokens == {Stars, Unders, BoldWord, <<"*">>, <<"a">>, <<" ">>, <<"#">>, Rule, <<"\n">>}

Markdowns == {Concat(ts) : ts \in UNION {[1..n -> Tokens] : n \in 0..MaxTokens}}

ExportImage == Raster(new_width, 400)

(***************************************************************************)
(* The specifications of the three pure transformations.                   *)
(***************************************************************************)
MainIdle ==
    /\ GOOGLE_API_KEY = None
    /\ uploaded_file = None
    /\ pc = <<>>
    /\ trace = <<>>
    /\ resized_image = None
    /\ response = None
    /\ session_state = None
    /\ sent = None
    /\ temp_file = None

NormIdle == pixel_array = <<>> /\ normalized = None
ResizeIdle == size = None /\ resize_out = None
DocxIdle == analysis_markdown = <<>> /\ doc = None

InitNorm ==
    /\ pixel_array \in PixelArrays
    /\ normalized = None
    /\ MainIdle /\ ResizeIdle /\ DocxIdle

\* lines 108-113 on a decoded array
Normalize ==
    /\ normalized = None
    /\ normalized' = [pixels |-> NormalizePixels(pixel_array)]
    /\ UNCHANGED <<pixel_array, mainVars, resizeVars, docxVars>>

NextNorm == Normalize

SpecNorm == InitNorm /\ [][NextNorm]_vars

InitResize ==
    /\ size \in Sizes
    /\ resize_out = None
    /\ MainIdle /\ NormIdle /\ DocxIdle

\* lines 123-127 on a decoded image
ResizeForDisplay ==
    /\ resize_out = None
    /\ resize_out' = Resize(size, new_width, NewHeight(size.w, size.h))
    /\ UNCHANGED <<size, mainVars, normVars, docxVars>>

NextResize == ResizeForDisplay

SpecResize == InitResize /\ [][NextResize]_vars

InitDocx ==
    /\ analysis_markdown \in Markdowns
    /\ doc = None
    /\ MainIdle /\ NormIdle /\ ResizeIdle

\* create_docx on a model answer
Export ==
    /\ doc = None
    /\ doc' = [elements |-> create_docx(analysis_markdown, ExportImage)]
    /\ UNCHANGED <<analysis_markdown, mainVars, normVars, resizeVars>>

NextDocx == Export

SpecDocx == InitDocx /\ [][NextDocx]_vars

(***************************************************************************)
(* The script runs (lines 18-221).  Streamlit runs the whole script again  *)
(* on every interaction of a session, in that session's own thread; all    *)
(* sessions live in one process and one working directory.  A run is       *)
(* atomic up to the handler's first blocking step; the handler is cut at   *)
(* its file write and its network call.  Interactions that arrive while a  *)
(* session's handler is running are left out.                              *)
(***************************************************************************)
Sessions == {"s1", "s2"}

\* values of os.getenv("GOOGLE_API_KEY"): unset, empty, set
Keys == {None, [key |-> ""], [key |-> "k"]}

\* "if GOOGLE_API_KEY"
Truthy(k) == k # None /\ k.key # ""

\* lines 39-47
medical_agent(k) == IF Truthy(k) THEN [model |-> "gemini-2.0-flash"] ELSE None

\* the files a user uploads: the uploader takes jpg, jpeg, png and dicom
Files ==
    { [name |-> <<"a", ".", "p", "n", "g">>, valid |-> TRUE, size |-> Raster(1000, 800)],
      [name |-> <<"w", ".", "p", "n", "g">>, valid |-> TRUE, size |-> Raster(1200, 2)],
      [name |-> <<"x", ".", "j", "p", "g">>, valid |-> FALSE, size |-> Raster(0, 0)],
      [name |-> <<"d", ".", "d", "i", "c", "o", "m">>, valid |-> TRUE, size |-> Raster(512, 512)],
      [name |-> <<"E", ".", "D", "I", "C", "O", "M">>, valid |-> FALSE, size |-> Raster(0, 0)] }

\* the answers of the hosted model (response.content)
Contents == {[content |-> "A"], [content |-> "B"]}

IsDcmOnly(file_name) == EndsWith(file_name, <<".", "d", "c", "m">>)

\* line 105
IsDicomName(file_name) ==
    \/ EndsWith(file_name, <<".", "d", "c", "m">>)
    \/ EndsWith(file_name, <<".", "d", "i", "c", "o", "m">>)

\* lines 20-50: the sidebar and the top-level warning
Banner(k) ==
    <<IF Truthy(k) THEN "sidebar_success" ELSE "sidebar_error">>
    \o (IF medical_agent(k) = None THEN <<"warning_unavailable">> ELSE <<>>)

\* lines 104-119: the decoded image, None after a DICOM failure, or the
\* exception PILImage.open raises, which nothing catches
Ingest(file) ==
    IF IsDicomName(Lower(file.name))
    THEN IF file.valid THEN [image |-> file.size, events |-> <<>>]
         ELSE [image |-> None, events |-> <<"error_dicom">>]
    ELSE IF file.valid THEN [image |-> file.size, events |-> <<>>]
         ELSE [image |-> None, events |-> <<"exception">>]

\* lines 99-139 and 220-221: the run up to and with the analyze button
ScriptHead(k, file) ==
    IF file = None THEN [events |-> Banner(k) \o <<"info_upload">>, resized |-> None]
    ELSE LET got == Ingest(file)
         IN  IF got.events # <<>> /\ got.events[1] = "exception"
             THEN [events |-> Banner(k) \o got.events, resized |-> None]
             ELSE IF got.image = None
             THEN [events |-> Banner(k) \o got.events \o <<"stop">>, resized |-> None]
             ELSE LET r == Resize(got.image, new_width, NewHeight(got.image.w, got.image.h))
                  IN  IF "error" \in DOMAIN r
                      THEN [events |-> Banner(k) \o got.events \o <<"exception">>,
                            resized |-> None]
                      ELSE [events |-> Banner(k) \o got.events \o <<"image", "button">>,
                            resized |-> r]

Has(tr, e) == \E i \in 1..Len(tr) : tr[i] = e
Count(tr, e) == Cardinality({i \in 1..Len(tr) : tr[i] = e})

ExceptNone(tr) == tr \o <<"exception">>

\* lines 218-219: except Exception as e: st.error(f"Analysis error: {e}")
Except(tr) == tr \o <<"error_analysis">>

\* d[k] = v on a dict
SetItem(d, k, v) == [x \in DOMAIN d \cup {k} |-> IF x = k THEN v ELSE d[x]]

EmptyDict == [x \in {} |-> None]

SetDefaults(ss) ==
    LET a == IF "analysis_result" \notin DOMAIN ss THEN SetItem(ss, "analysis_result", None)
             ELSE ss
    IN  IF "analysis_image" \notin DOMAIN a THEN SetItem(a, "analysis_image", None) ELSE a

StoreIfAbsent(ss, content, image) ==
    LET d == SetDefaults(ss)
        a == IF d["analysis_result"] = None THEN SetItem(d, "analysis_result", content) ELSE d
    IN  IF a["analysis_image"] = None THEN SetItem(a, "analysis_image", image) ELSE a

\* lines 196-201
Store(ss, content, image) ==
    SetItem(SetItem(SetDefaults(ss), "analysis_result", content), "analysis_image", image)

Init ==
    /\ GOOGLE_API_KEY \in Keys
    /\ uploaded_file = [s \in Sessions |-> None]
    /\ pc = [s \in Sessions |-> "idle"]
    /\ trace = [s \in Sessions |-> ScriptHead(GOOGLE_API_KEY, None).events]
    /\ resized_image = [s \in Sessions |-> None]
    /\ response = [s \in Sessions |-> None]
    /\ session_state = [s \in Sessions |-> EmptyDict]
    /\ sent = [s \in Sessions |-> None]
    /\ temp_file = None
    /\ NormIdle /\ ResizeIdle /\ DocxIdle

pureVars == <<pixel_array, normalized, size, resize_out, analysis_markdown, doc>>

\* a rerun of the script for session s, with or without the button pressed
Rerun(s, file, analyze_button) ==
    /\ uploaded_file' = [uploaded_file EXCEPT ![s] = file]
    /\ trace' = [trace EXCEPT ![s] = ScriptHead(GOOGLE_API_KEY, file).events]
    /\ resized_image' = [resized_image EXCEPT ![s] = ScriptHead(GOOGLE_API_KEY, file).resized]
    /\ response' = [response EXCEPT ![s] = None]
    /\ sent' = [sent EXCEPT ![s] = None]
    /\ pc' = [pc EXCEPT ![s] = IF analyze_button THEN "save" ELSE "idle"]
    /\ UNCHANGED <<GOOGLE_API_KEY, session_state, temp_file, pureVars>>

\* the user puts a file into the uploader, replaces it or removes it
Upload(s) ==
    /\ pc[s] = "idle"
    /\ \E file \in Files \cup {None} :
           /\ file # uploaded_file[s]
           /\ Rerun(s, file, FALSE)

\* the user presses "Analyze Image": line 142 is true in the rerun
Click(s) ==
    /\ pc[s] = "idle"
    /\ Has(trace[s], "button")
    /\ Rerun(s, uploaded_file[s], TRUE)

\* the user presses the download button: a rerun without the analysis
Download(s) ==
    /\ pc[s] = "idle"
    /\ Has(trace[s], "download")
    /\ Rerun(s, uploaded_file[s], FALSE)

\* line 146: resized_image.save("temp_resized_image.png")
SaveTemp(s) ==
    /\ pc[s] = "save"
    /\ \E ok \in BOOLEAN :
           IF ok
           THEN /\ temp_file' = resized_image[s]
                /\ trace' = [trace EXCEPT ![s] = @ \o <<"save">>]
                /\ pc' = [pc EXCEPT ![s] = "run"]
           ELSE /\ temp_file' = temp_file
                /\ trace' = [trace EXCEPT ![s] = Except(@ \o <<"save">>)]
                /\ pc' = [pc EXCEPT ![s] = "idle"]
    /\ UNCHANGED <<GOOGLE_API_KEY, uploaded_file, resized_image, response,
                   session_state, sent, pureVars>>

\* lines 149-152: the request carries what the file holds when it is read
RunAgent(s) ==
    /\ pc[s] = "run"
    /\ IF medical_agent(GOOGLE_API_KEY) = None
       THEN /\ trace' = [trace EXCEPT ![s] = Except(@ \o <<"agno_image">>)]
            /\ pc' = [pc EXCEPT ![s] = "idle"]
            /\ UNCHANGED <<response, sent>>
       ELSE /\ sent' = [sent EXCEPT ![s] = temp_file]
            /\ \E answer \in Contents \cup {None} :
                   IF answer = None
                   THEN /\ trace' = [trace EXCEPT
                                       ![s] = Except(@ \o <<"agno_image", "agent_run">>)]
                        /\ pc' = [pc EXCEPT ![s] = "idle"]
                        /\ UNCHANGED response
                   ELSE /\ trace' = [trace EXCEPT ![s] = @ \o <<"agno_image", "agent_run">>]
                        /\ pc' = [pc EXCEPT ![s] = "render"]
                        /\ response' = [response EXCEPT ![s] = answer]
    /\ UNCHANGED <<GOOGLE_API_KEY, uploaded_file, resized_image, session_state,
                   temp_file, pureVars>>

\* lines 153-216: render, store, export, download button
Finish(s) ==
    /\ pc[s] = "render"
    /\ \E render_ok, export_ok \in BOOLEAN :
           IF ~render_ok
           THEN /\ trace' = [trace EXCEPT ![s] = Except(@ \o <<"results_header">>)]
                /\ UNCHANGED session_state
           ELSE /\ session_state' = [session_state EXCEPT
                                       ![s] = Store(@, response[s], resized_image[s])]
                /\ trace' = [trace EXCEPT
                               ![s] = IF export_ok
                                      THEN @ \o <<"results_header", "results", "store",
                                                  "export", "download">>
                                      ELSE Except(@ \o <<"results_header", "results",
                                                         "store", "export">>)]
    /\ pc' = [pc EXCEPT ![s] = "idle"]
    /\ UNCHANGED <<GOOGLE_API_KEY, uploaded_file, resized_image, response, sent,
                   temp_file, pureVars>>

Next ==
    \E s \in Sessions :
        \/ Upload(s)
        \/ Click(s)
        \/ Download(s)
        \/ SaveTemp(s)
        \/ RunAgent(s)
        \/ Finish(s)

Spec == Init /\ [][Next]_vars

(***************************************************************************)
(* Claims about the script runs, under Spec.                               *)
(***************************************************************************)
\* C1: without an API key the analyze button is never offered and the hosted
\* model is never called, whatever the user uploads and clicks.
C1_NoKeyNoButton ==
    ~Truthy(GOOGLE_API_KEY) =>
        \A s \in Sessions : ~Has(trace[s], "button") /\ ~Has(trace[s], "agent_run")

DicomNamed(name) ==
    \/ EndsWith(Lower(name), <<".", "d", "c", "m">>)
    \/ EndsWith(Lower(name), <<".", "d", "i", "c", "o", "m">>)

CorruptDicom(s) ==
    /\ uploaded_file[s] # None
    /\ DicomNamed(uploaded_file[s].name)
    /\ ~uploaded_file[s].valid

AfterIngest ==
    {"image", "button", "save", "agno_image", "agent_run", "results_header",
     "results", "store", "export", "download", "error_analysis", "exception"}

\* C2: the run for an upload named .dcm or .dicom whose bytes do not decode
\* reports one 'Failed to read DICOM file' error, has no raster and halts:
\* no resize, no image, no button, no model call, no write to session state.
C2_CorruptDicomHalts ==
    \A s \in Sessions :
        CorruptDicom(s) =>
            /\ pc[s] = "idle"
            /\ Count(trace[s], "error_dicom") = 1
            /\ trace[s][Len(trace[s])] = "stop"
            /\ resized_image[s] = None
            /\ sent[s] = None
            /\ \A e \in AfterIngest : ~Has(trace[s], e)

\* a corrupt upper-case .DICOM upload in a session that holds an earlier result
C2_Witness ==
    \E s \in Sessions :
        /\ CorruptDicom(s)
        /\ uploaded_file[s].name # Lower(uploaded_file[s].name)
        /\ session_state[s] # EmptyDict

Clicked(s) == Has(trace[s], "save")

\* C3 as stated: a click calls the model once at most, and a failure of any
\* step of the handler is caught, shows exactly one 'Analysis error', and
\* leaves no analysis text and no download button.
C3_FailClosedAsStated ==
    \A s \in Sessions :
        /\ Count(trace[s], "agent_run") <= 1
        /\ Has(trace[s], "error_analysis") =>
               /\ Count(trace[s], "error_analysis") = 1
               /\ ~Has(trace[s], "exception")
               /\ ~Has(trace[s], "download")
               /\ ~Has(trace[s], "results")

\* C3 amended: a click calls the model once at most; a handler that has
\* started ends with the download button or with exactly one 'Analysis
\* error', never with an uncaught exception; after the error there is no
\* download button, and the analysis text is on the page only when the step
\* that failed is the document export, which comes after the rendering.
C3_FailClosed ==
    \A s \in Sessions :
        /\ Count(trace[s], "agent_run") <= 1
        /\ (pc[s] = "idle" /\ Clicked(s)) =>
               trace[s][Len(trace[s])] \in {"download", "error_analysis"}
        /\ Has(trace[s], "error_analysis") =>
               /\ pc[s] = "idle"
               /\ Count(trace[s], "error_analysis") = 1
               /\ trace[s][Len(trace[s])] = "error_analysis"
               /\ ~Has(trace[s], "exception")
               /\ ~Has(trace[s], "download")
               /\ Has(trace[s], "results") => Has(trace[s], "export")

\* one session failed in the model call, the other in the document export
C3_Witness ==
    \E s, t \in Sessions :
        /\ Has(trace[s], "error_analysis") /\ Has(trace[s], "agent_run")
        /\ ~Has(trace[s], "results")
        /\ Has(trace[t], "error_analysis") /\ Has(trace[t], "results")

Held(content, image) == [analysis_result |-> content, analysis_image |-> image]

\* C4 as stated: after any analysis request the session holds the result of
\* the most recent request and the image of that same request.
C4_LatestRequestAsStated ==
    \A s \in Sessions :
        (pc[s] = "idle" /\ Clicked(s)) =>
            session_state[s] = Held(response[s], resized_image[s])

\* C4 amended: a request whose model call and rendering succeed replaces the
\* session's two entries by its own answer and its own resized image (nothing
\* of the earlier entries is kept), and session state changes in no other way:
\* a request that fails before leaves the entries of the last request that
\* got that far.
C4_LatestStoredRequest ==
    /\ [](\A s \in Sessions :
            Has(trace[s], "store") =>
                session_state[s] = Held(response[s], resized_image[s]))
    /\ [][\A s \in Sessions :
            session_state'[s] # session_state[s] =>
                /\ pc[s] = "render"
                /\ session_state'[s] = Held(response[s], resized_image[s])]_vars

\* a failed request for another image, in a session that holds an earlier
\* result, while the other session has just stored its own
C4_Witness ==
    \E s, t \in Sessions :
        /\ pc[s] = "idle" /\ Clicked(s) /\ ~Has(trace[s], "store")
        /\ session_state[s] # EmptyDict
        /\ session_state[s]["analysis_image"] # resized_image[s]
        /\ Has(trace[t], "store")
        /\ session_state[t] # session_state[s]

\* C10: under every interleaving of the handlers of the sessions, the image
\* the hosted model receives in a request is the resized image of that
\* request's own upload.
C10_OwnImageDelivered ==
    \A s \in Sessions : sent[s] # None => sent[s] = resized_image[s]

(***************************************************************************)
(* Claims about the DICOM normalisation, under SpecNorm.                   *)
(***************************************************************************)
AllEqual(px) == \A i, j \in 1..Len(px) : px[i] = px[j]

\* C5: a decoded pixel array whose values are not all equal (negative values
\* included) is normalised to 8-bit values in 0..255 whose minimum is exactly
\* 0 and whose maximum is exactly 255.
C5_NormalizedRange ==
    (normalized # None /\ ~AllEqual(pixel_array)) =>
        /\ Len(normalized.pixels) = Len(pixel_array)
        /\ \A i \in 1..Len(pixel_array) : normalized.pixels[i] \in 0..255
        /\ SeqMin(normalized.pixels) = 0
        /\ SeqMax(normalized.pixels) = 255

\* a normalised array with a negative input value and an interior output value
C5_Witness ==
    /\ normalized # None
    /\ ~AllEqual(pixel_array)
    /\ \E i \in 1..Len(pixel_array) : pixel_array[i] < 0
    /\ \E i \in 1..Len(pixel_array) : normalized.pixels[i] \notin {0, 255}

\* C6: a pixel array whose pixels all have the same value c (positive, zero
\* or negative) is normalised without a division by zero, to an image of the
\* same shape whose pixels are all 0.
C6_ConstantArrayAllZero ==
    (normalized # None /\ AllEqual(pixel_array)) =>
        normalized.pixels = [i \in 1..Len(pixel_array) |-> 0]

\* a normalised constant array of several negative pixels
C6_Witness ==
    /\ normalized # None
    /\ AllEqual(pixel_array)
    /\ Len(pixel_array) >= 2
    /\ pixel_array[1] < 0

(***************************************************************************)
(* Claim about the display resize, under SpecResize.                       *)
(***************************************************************************)
\* C7: for every image of positive width w and height h the resize completes
\* with a raster of width exactly 500 and a height h' with |h' - 500*h/w| < 1.
C7_ResizeKeepsAspect ==
    resize_out # None =>
        /\ DOMAIN resize_out = {"w", "h"}
        /\ resize_out.w = new_width
        /\ resize_out.h * size.w - new_width * size.h < size.w
        /\ new_width * size.h - resize_out.h * size.w < size.w

(***************************************************************************)
(* Claims about create_docx, under SpecDocx.                               *)
(***************************************************************************)
Lines == Split(analysis_markdown, "\n")

\* the lines that add an element: headings, rules and paragraphs
AddsElement(line) == StartsWith(line, <<"#">>) \/ Strip(line) # <<>>

\* where the element of line k sits in the document, after the three fixed ones
ElementIndex(k) == 3 + Cardinality({j \in 1..k : AddsElement(Lines[j])})

RECURSIVE DropHashes(_)
DropHashes(s) == IF s # <<>> /\ Head(s) = "#" THEN DropHashes(Tail(s)) ELSE s

\* the title of a heading line: what follows the marker, trimmed
TitleOf(line) == Strip(DropHashes(line))

\* C8: every line that begins with a heading marker yields exactly one
\* heading whose text is exactly the title after the marker (trimmed, every
\* other character kept), and no paragraph.
C8_HeadingKeepsTitle ==
    doc # None =>
        /\ Len(doc.elements) = ElementIndex(Len(Lines))
        /\ \A k \in 1..Len(Lines) :
               StartsWith(Lines[k], <<"#">>) =>
                   doc.elements[ElementIndex(k)] = Heading(TitleOf(Lines[k]), 1)

\* the pieces of a line between its '**' delimiters, left to right
RECURSIVE StarPiecesFrom(_, _)
StarPiecesFrom(s, cur) ==
    IF s = <<>> THEN <<cur>>
    ELSE IF StartsWith(s, Stars) THEN <<cur>> \o StarPiecesFrom(Tail(Tail(s)), <<>>)
    ELSE StarPiecesFrom(Tail(s), Append(cur, Head(s)))

StarPieces(line) == StarPiecesFrom(line, <<>>)

\* a line whose '**' delimiters pair up around non-empty text
Wrapped(line) ==
    LET p == StarPieces(line)
    IN  /\ Len(p) >= 3
        /\ Len(p) % 2 = 1
        /\ \A i \in 1..Len(p) : i % 2 = 0 => p[i] # <<>>

\* the runs the claim describes: the inner texts bold, the text outside plain
ExpectedRuns(line) ==
    LET p == StarPieces(line)
    IN  Concat([i \in 1..Len(p) |->
                   IF i % 2 = 0 THEN <<Run(p[i], TRUE)>>
                   ELSE IF p[i] = <<>> THEN <<>> ELSE <<Run(p[i], FALSE)>>])

HasUnders(line) == \E i \in 0..Len(line) : MatchAt(line, i, Unders)

=============================================================================
